---- MODULE Spec2Model ----
(***************************************************************************)
(* Model of the Flipper Zero pinout generator (src/pinout_generator.py):   *)
(* the PinoutGenerator object (pin catalog, connection profiles), its five *)
(* methods and the command-line main(); and of the interactive agent       *)
(* (src/main.py): the FlipperDIYAgent object, its methods and the command  *)
(* loop of run_interactive_mode.                                           *)
(*                                                                         *)
(* Representation of Python values                                         *)
(*  - A rendered text is the sequence of its lines (the list that the      *)
(*    code joins with "\n"); a line is the sequence of the pieces of the   *)
(*    f-string or concatenation that builds it, each piece a string.  The  *)
(*    length of a line is the sum of the lengths of its pieces.            *)
(*  - A string the code inspects character by character (a command-line    *)
(*    argument, an enum value, the enum's error message) is a sequence of  *)
(*    one-character strings.                                               *)
(*  - A dict is a sequence of <<key, value>> pairs in insertion order.     *)
(*  - Non-ASCII characters of the source are written with one ASCII        *)
(*    stand-in per code point, so lengths are kept:                        *)
(*      box-drawing horizontals U+2550 "=", U+2500 "-";                    *)
(*      box-drawing verticals U+2551, U+2502 "|";                          *)
(*      box-drawing corners and tees "+";                                  *)
(*      arrows U+2192 ">", U+2190 "<"; bullet U+2022 "*";                  *)
(*      warning sign U+26A0 U+FE0F "!!"; u-umlaut "u", a-umlaut "a".       *)
(***************************************************************************)
EXTENDS Integers, Sequences, FiniteSets, TLC

VARIABLES flipper_gpio_pins, connection_configs, call, ret,
          sys_argv, stdout, exit_code,
          agent, agent_pc, agent_call, ctor_connection_type

vars == <<flipper_gpio_pins, connection_configs, call, ret,
          sys_argv, stdout, exit_code,
          agent, agent_pc, agent_call, ctor_connection_type>>

\* the state of a program that uses the pinout generator
pinout_vars == <<flipper_gpio_pins, connection_configs, call, ret,
                 sys_argv, stdout, exit_code>>

\* the state of a program that uses the agent: the FlipperDIYAgent object,
\* where its caller stands, the call made last with what it returned, printed
\* and logged, and the connection_type the constructor was given
agent_vars == <<agent, agent_pc, agent_call, ctor_connection_type>>

-----------------------------------------------------------------------------
(* Bounds of the explored inputs.                                          *)

\* widths tried are DefaultWidth - WidthSpread .. DefaultWidth + WidthSpread
WidthSpread == 1
\* pin numbers tried are -PinMargin .. 18 + PinMargin, and FarPin
PinMargin == 2
\* free-form command-line arguments have at most MaxArgLen characters
MaxArgLen == 2

DefaultWidth == 60
FarPin == 9999

-----------------------------------------------------------------------------
(* Strings.                                                                *)

RECURSIVE Rep(_, _)
\* Python's  c * n
Rep(c, n) == IF n <= 0 THEN "" ELSE c \o Rep(c, n - 1)

\* format spec  :<n   and str.ljust(n)
LJust(s, n) == s \o Rep(" ", n - Len(s))

\* format spec  :^n  : the odd space goes to the right
CenterFmt(s, n) ==
    LET pad == IF n > Len(s) THEN n - Len(s) ELSE 0
        left == pad \div 2
    IN  Rep(" ", left) \o s \o Rep(" ", pad - left)

\* str.center(n): the odd space goes to the left when n is odd
StrCenter(s, n) ==
    LET pad == IF n > Len(s) THEN n - Len(s) ELSE 0
        left == (pad \div 2) + (IF pad % 2 = 1 /\ n % 2 = 1 THEN 1 ELSE 0)
    IN  Rep(" ", left) \o s \o Rep(" ", pad - left)

Digit(d) == <<"0", "1", "2", "3", "4", "5", "6", "7", "8", "9">>[d + 1]

RECURSIVE Decimal(_)
\* str(n) for an integer
Decimal(n) ==
    IF n < 0 THEN "-" \o Decimal(-n)
    ELSE IF n < 10 THEN Digit(n)
    ELSE Decimal(n \div 10) \o Digit(n % 10)

\* format spec  :2d
Fmt2d(n) == Rep(" ", 2 - Len(Decimal(n))) \o Decimal(n)

RECURSIVE LineLen(_)
\* len() of a line given by its pieces
LineLen(line) == IF line = <<>> THEN 0 ELSE Len(Head(line)) + LineLen(Tail(line))

RECURSIVE Str(_)
\* the string spelled by a sequence of characters
Str(chars) == IF chars = <<>> THEN "" ELSE Head(chars) \o Str(Tail(chars))

LowerChars == <<"a", "b", "c", "d", "e", "f", "g", "h", "i", "j", "k", "l", "m",
                "n", "o", "p", "q", "r", "s", "t", "u", "v", "w", "x", "y", "z">>
UpperChars == <<"A", "B", "C", "D", "E", "F", "G", "H", "I", "J", "K", "L", "M",
                "N", "O", "P", "Q", "R", "S", "T", "U", "V", "W", "X", "Y", "Z">>

IndexIn(seq, c) == IF \E i \in DOMAIN seq : seq[i] = c
                   THEN CHOOSE i \in DOMAIN seq : seq[i] = c
                   ELSE 0

\* str.lower() and str.upper(), character by character
lower(chars) == [i \in DOMAIN chars |->
                   IF IndexIn(UpperChars, chars[i]) > 0
                   THEN LowerChars[IndexIn(UpperChars, chars[i])]
                   ELSE chars[i]]
upper(chars) == [i \in DOMAIN chars |->
                   IF IndexIn(LowerChars, chars[i]) > 0
                   THEN UpperChars[IndexIn(LowerChars, chars[i])]
                   ELSE chars[i]]

RECURSIVE Flatten(_)
Flatten(seqs) == IF seqs = <<>> THEN <<>> ELSE Head(seqs) \o Flatten(Tail(seqs))

\* repr() of a str: single quotes unless the string holds a single quote and
\* no double quote; backslash, the chosen quote and control characters escaped
repr(chars) ==
    LET has(c) == \E i \in DOMAIN chars : chars[i] = c
        quote == IF has("'") /\ ~has("\"") THEN "\"" ELSE "'"
        esc(c) == IF c = "\\" THEN <<"\\", "\\">>
                  ELSE IF c = quote THEN <<"\\", c>>
                  ELSE IF c = "\n" THEN <<"\\", "n">>
                  ELSE IF c = "\t" THEN <<"\\", "t">>
                  ELSE IF c = "\r" THEN <<"\\", "r">>
                  ELSE <<c>>
    IN  <<quote>> \o Flatten([i \in DOMAIN chars |-> esc(chars[i])]) \o <<quote>>

RECURSIVE JoinComma(_)
\* the pieces of  ", ".join(names)
JoinComma(names) ==
    IF names = <<>> THEN <<>>
    ELSE IF Len(names) = 1 THEN <<Head(names)>>
    ELSE <<Head(names), ", ">> \o JoinComma(Tail(names))

-----------------------------------------------------------------------------
(* Dicts and optional values.                                              *)

None == [some |-> FALSE, v |-> ""]
Some(v) == [some |-> TRUE, v |-> v]

\* dict.get(key) on a dict given as a sequence of <<key, value>> pairs
DictGet(d, key) ==
    IF \E i \in DOMAIN d : d[i][1] = key
    THEN Some(d[CHOOSE i \in DOMAIN d : d[i][1] = key][2])
    ELSE None

\* dict.get(key, default)
DictGetDefault(d, key, default) ==
    IF DictGet(d, key).some THEN DictGet(d, key).v ELSE default

-----------------------------------------------------------------------------
(* class ConnectionType(Enum): the members in definition order.            *)

ConnectionType ==
    << [name |-> "UART",   value |-> <<"u", "a", "r", "t">>],
       [name |-> "FTDI",   value |-> <<"f", "t", "d", "i">>],
       [name |-> "DIRECT", value |-> <<"d", "i", "r", "e", "c", "t">>],
       [name |-> "USB",    value |-> <<"u", "s", "b">>] >>

MemberNames == {ConnectionType[i].name : i \in DOMAIN ConnectionType}

\* member.value
ValueOf(name) ==
    ConnectionType[CHOOSE i \in DOMAIN ConnectionType : ConnectionType[i].name = name].value

\* A Python value passed as connection_type: an enum member, or anything else.
PyMember(name) == [type |-> "ConnectionType", v |-> name]
PyOther(type, v) == [type |-> type, v |-> v]

\* ConnectionType(value): the member with that value, or ValueError with the
\* message  repr(value) + " is not a valid ConnectionType"
EnumByValue(chars) ==
    IF \E i \in DOMAIN ConnectionType : ConnectionType[i].value = chars
    THEN [raised |-> "",
          member |-> PyMember(ConnectionType[CHOOSE i \in DOMAIN ConnectionType :
                                               ConnectionType[i].value = chars].name),
          message |-> <<>>]
    ELSE [raised |-> "ValueError",
          member |-> PyOther("NoneType", "None"),
          message |-> repr(chars) \o
              <<" ", "i", "s", " ", "n", "o", "t", " ", "a", " ", "v", "a", "l", "i",
                "d", " ", "C", "o", "n", "n", "e", "c", "t", "i", "o", "n", "T", "y",
                "p", "e">>]

-----------------------------------------------------------------------------
(* PinoutGenerator.__init__                                                *)

PhysicalPinRef(n) == [type |-> "int", n |-> n, s |-> ""]
NamedPinRef(s) == [type |-> "str", n |-> 0, s |-> s]

InitPins ==
    << <<1, "VCC (3.3V)">>,
       <<2, "PA7 (SPI_MOSI)">>,
       <<3, "PA6 (SPI_MISO)">>,
       <<4, "PA4 (SPI_SCK)">>,
       <<5, "PB3 (SPI_CS)">>,
       <<6, "PB2 (USART_TX)">>,
       <<7, "PC3 (USART_RX)">>,
       <<8, "PC1 (GPIO)">>,
       <<9, "PC0 (GPIO)">>,
       <<10, "PB8 (I2C_SCL)">>,
       <<11, "PB9 (I2C_SDA)">>,
       <<12, "PA15 (GPIO)">>,
       <<13, "PA14 (SWCLK)">>,
       <<14, "PA13 (SWDIO)">>,
       <<15, "RESET">>,
       <<16, "GND">>,
       <<17, "3V3 (Power Out)">>,
       <<18, "5V (USB Power)">> >>

UartConfig ==
    [pins |-> << <<PhysicalPinRef(6), "TX">>, <<PhysicalPinRef(7), "RX">>,
                 <<PhysicalPinRef(1), "VCC">>, <<PhysicalPinRef(16), "GND">> >>,
     description |-> "Standard UART Verbindung",
     baudrate |-> "115200"]

FtdiConfig ==
    [pins |-> << <<PhysicalPinRef(6), "TXD">>, <<PhysicalPinRef(7), "RXD">>,
                 <<PhysicalPinRef(1), "VCC">>, <<PhysicalPinRef(16), "GND">> >>,
     description |-> "FTDI USB-Serial Adapter",
     voltage |-> "3.3V"]

DirectConfig ==
    [pins |-> << <<PhysicalPinRef(8), "GPIO1">>, <<PhysicalPinRef(9), "GPIO2">>,
                 <<PhysicalPinRef(12), "GPIO3">>, <<PhysicalPinRef(1), "VCC">>,
                 <<PhysicalPinRef(16), "GND">> >>,
     description |-> "Direkte GPIO Verbindung",
     note |-> "Fur custom Hardware"]

\* variant: the USB power pin is mistyped as 19, which the catalog lacks
UsbConfigPin19 ==
    [pins |-> << <<PhysicalPinRef(19), "5V">>, <<PhysicalPinRef(16), "GND">>,
                 <<NamedPinRef("USB_D+"), "Data+">>, <<NamedPinRef("USB_D-"), "Data-">> >>,
     description |-> "USB Verbindung",
     protocol |-> "USB 2.0 Full Speed"]

UsbConfig ==
    [pins |-> << <<PhysicalPinRef(18), "5V">>, <<PhysicalPinRef(16), "GND">>,
                 <<NamedPinRef("USB_D+"), "Data+">>, <<NamedPinRef("USB_D-"), "Data-">> >>,
     description |-> "USB Verbindung",
     protocol |-> "USB 2.0 Full Speed"]

InitConfigs ==
    << <<"UART", UartConfig>>, <<"FTDI", FtdiConfig>>,
       <<"DIRECT", DirectConfig>>, <<"USB", UsbConfig>> >>

\* the object after construction
NewGenerator == [flipper_gpio_pins |-> InitPins, connection_configs |-> InitConfigs]

Self(pins, configs) == [flipper_gpio_pins |-> pins, connection_configs |-> configs]

-----------------------------------------------------------------------------
(* What a call leaves behind: the object after it, and what it returned or *)
(* raised.                                                                 *)

NoRet == [raised |-> "", message |-> <<>>, text |-> <<>>, pin_info |-> None, list |-> <<>>]

ReturnText(lines) == [NoRet EXCEPT !.text = lines]
ReturnPinInfo(opt) == [NoRet EXCEPT !.pin_info = opt]
ReturnList(l) == [NoRet EXCEPT !.list = l]
Raise(exc, msg) == [NoRet EXCEPT !.raised = exc, !.message = msg]

\* str(connection_type) as the f-string of the error message renders it
PyStr(value) == IF value.type = "ConnectionType"
                THEN "ConnectionType." \o value.v
                ELSE value.v

Unhashable == {"list", "dict", "set"}

\* self.connection_configs.get(connection_type): hashing the key comes first,
\* and only an enum member equals a key of the dict
ConfigsGet(configs, connection_type) ==
    IF connection_type.type \in Unhashable
    THEN [raised |-> "TypeError", config |-> None]
    ELSE IF connection_type.type = "ConnectionType"
    THEN [raised |-> "", config |-> DictGet(configs, connection_type.v)]
    ELSE [raised |-> "", config |-> None]

\* Python truth value of the looked-up config:  not config
NotConfig(opt) == ~opt.some \/ DOMAIN opt.v = {}

-----------------------------------------------------------------------------
(* PinoutGenerator.generate_ascii_pinout                                   *)

GpioHeaderArt(separator) ==
    << <<"|                    Flipper Zero GPIO                    |">>,
       <<"|    +---------------------------------------------+    |">>,
       <<"|    |  1  3  5  7  9 11 13 15 17              |    |">>,
       <<"|    |  o  o  o  o  o  o  o  o  o               |    |">>,
       <<"|    |  o  o  o  o  o  o  o  o  o               |    |">>,
       <<"|    |  2  4  6  8 10 12 14 16 18              |    |">>,
       <<"|    +---------------------------------------------+    |">>,
       <<"+", separator, "+">> >>

\* one row of the pin-assignment section
PinRow(gpio_pins, pin, function) ==
    IF pin.type = "int"
    THEN <<"| Pin ", Fmt2d(pin.n), ": ", LJust(function, 10), " > ",
           LJust(DictGetDefault(gpio_pins, pin.n, "Unknown"), 25), " |">>
    ELSE <<"| ", pin.s, ": ", LJust(function, 35), " |">>

\* variant: the rows come out in reverse of the mapping's insertion order
PinRowsReversed(gpio_pins, pins) ==
    [i \in DOMAIN pins |->
        PinRow(gpio_pins, pins[Len(pins) + 1 - i][1], pins[Len(pins) + 1 - i][2])]

\* the loop over config["pins"].items()
PinRows(gpio_pins, pins) == [i \in DOMAIN pins |-> PinRow(gpio_pins, pins[i][1], pins[i][2])]

\* the trailing metadata lines, in the order of the four tests
MetaRows(config) ==
    (IF "baudrate" \in DOMAIN config
     THEN << <<"| Baudrate: ", LJust(config.baudrate, 46), " |">> >> ELSE <<>>)
    \o (IF "voltage" \in DOMAIN config
        THEN << <<"| Spannung: ", LJust(config.voltage, 46), " |">> >> ELSE <<>>)
    \o (IF "protocol" \in DOMAIN config
        THEN << <<"| Protokoll: ", LJust(config.protocol, 45), " |">> >> ELSE <<>>)
    \o (IF "note" \in DOMAIN config
        THEN << <<"| Hinweis: ", LJust(config.note, 47), " |">> >> ELSE <<>>)

AsciiArt(gpio_pins, config, connection_type, width) ==
    LET title == "Flipper Zero " \o Str(upper(ValueOf(connection_type.v))) \o " Pinout"
        separator == Rep("=", width)
    IN  << <<"+", separator, "+">>,
           <<"|", CenterFmt(title, width), "|">>,
           <<"|", CenterFmt(config.description, width), "|">>,
           <<"+", separator, "+">> >>
        \o GpioHeaderArt(separator)
        \o << <<"|                    Pin-Zuordnungen                     |">>,
              <<"+", separator, "+">> >>
        \o PinRows(gpio_pins, config.pins)
        \o << <<"+", separator, "+">> >>
        \o MetaRows(config)
        \o << <<"+", separator, "+">> >>

generate_ascii_pinout(self, connection_type, width) ==
    LET got == ConfigsGet(self.connection_configs, connection_type)
    IN  [self |-> self,
         ret |-> IF got.raised # ""
                 THEN Raise(got.raised,
                            <<"unhashable type: '", connection_type.type, "'">>)
                 ELSE IF NotConfig(got.config)
                 THEN Raise("ValueError",
                            <<"Unbekannter Verbindungstyp: ", PyStr(connection_type)>>)
                 ELSE ReturnText(AsciiArt(self.flipper_gpio_pins, got.config.v,
                                          connection_type, width))]

-----------------------------------------------------------------------------
(* PinoutGenerator.generate_connection_diagram                             *)

DiagramBody(connection_type) ==
    IF connection_type = PyMember("UART") THEN
        << <<"Flipper Zero    <>    UART Device">>,
           <<"Pin 6 (TX)      <>    RX">>,
           <<"Pin 7 (RX)      <>    TX">>,
           <<"Pin 1 (VCC)     <>    VCC (3.3V)">>,
           <<"Pin 16 (GND)    <>    GND">>,
           <<"">>,
           <<"Baudrate: 115200, 8N1">> >>
    ELSE IF connection_type = PyMember("FTDI") THEN
        << <<"Flipper Zero    <>    FTDI Adapter    <>    USB">>,
           <<"Pin 6 (TX)      <>    RXD">>,
           <<"Pin 7 (RX)      <>    TXD">>,
           <<"Pin 1 (VCC)     <>    VCC (3.3V)">>,
           <<"Pin 16 (GND)    <>    GND">>,
           <<"">>,
           <<"!!  FTDI auf 3.3V einstellen!">> >>
    ELSE IF connection_type = PyMember("DIRECT") THEN
        << <<"Flipper Zero    <>    Custom Hardware">>,
           <<"Pin 8 (PC1)     <>    GPIO Input/Output">>,
           <<"Pin 9 (PC0)     <>    GPIO Input/Output">>,
           <<"Pin 12 (PA15)   <>    GPIO Input/Output">>,
           <<"Pin 1 (VCC)     <>    Power (3.3V)">>,
           <<"Pin 16 (GND)    <>    Ground">>,
           <<"">>,
           <<"!!  GPIO Level: 3.3V max!">> >>
    ELSE IF connection_type = PyMember("USB") THEN
        << <<"Flipper Zero USB-C    <>    Host Device">>,
           <<"USB D+               <>    Data+">>,
           <<"USB D-               <>    Data-">>,
           <<"5V (Pin 18)         <>    USB Power">>,
           <<"GND (Pin 16)        <>    USB Ground">>,
           <<"">>,
           <<"USB 2.0 Full Speed (12 Mbps)">> >>
    ELSE <<>>

\* the first list element starts with "\n": an empty line, then the heading
Diagram(connection_type) ==
    << <<"">>,
       <<Str(upper(ValueOf(connection_type.v))), " Verbindungsdiagramm:">>,
       <<Rep("=", 50)>> >>
    \o DiagramBody(connection_type)

generate_connection_diagram(self, connection_type) ==
    LET got == ConfigsGet(self.connection_configs, connection_type)
    IN  [self |-> self,
         ret |-> IF got.raised # ""
                 THEN Raise(got.raised,
                            <<"unhashable type: '", connection_type.type, "'">>)
                 ELSE IF NotConfig(got.config)
                 THEN Raise("ValueError",
                            <<"Unbekannter Verbindungstyp: ", PyStr(connection_type)>>)
                 ELSE ReturnText(Diagram(connection_type))]

-----------------------------------------------------------------------------
(* PinoutGenerator.get_pin_info, list_available_connections,               *)
(* generate_full_pinout_reference                                          *)

\* variant: the catalog is indexed, self.flipper_gpio_pins[pin_number]
get_pin_info_indexed(self, pin_number) ==
    [self |-> self,
     ret |-> IF DictGet(self.flipper_gpio_pins, pin_number).some
             THEN ReturnPinInfo(DictGet(self.flipper_gpio_pins, pin_number))
             ELSE Raise("KeyError", <<Decimal(pin_number)>>)]

\* variant: the lookup is a setdefault, which stores the missing pin
get_pin_info_setdefault(self, pin_number) ==
    [self |-> IF DictGet(self.flipper_gpio_pins, pin_number).some
              THEN self
              ELSE [self EXCEPT !.flipper_gpio_pins = @ \o << <<pin_number, "Unknown">> >>],
     ret |-> ReturnPinInfo(Some(DictGetDefault(self.flipper_gpio_pins, pin_number,
                                               "Unknown")))]

get_pin_info(self, pin_number) ==
    [self |-> self,
     ret |-> ReturnPinInfo(DictGet(self.flipper_gpio_pins, pin_number))]

\* variant: the values come out sorted
EnumValuesSorted == <<"direct", "ftdi", "uart", "usb">>

\* [conn_type.value for conn_type in ConnectionType]
EnumValues == [i \in DOMAIN ConnectionType |-> Str(ConnectionType[i].value)]

list_available_connections(self) ==
    [self |-> self, ret |-> ReturnList(EnumValues)]

\* variant: the loop stops one entry early
ReferenceRowsShort(gpio_pins) ==
    [i \in 1 .. (Len(gpio_pins) - 1) |->
        <<"| Pin ", Fmt2d(gpio_pins[i][1]), ": ", LJust(gpio_pins[i][2], 46), " |">>]

\* the loop over self.flipper_gpio_pins.items()
ReferenceRows(gpio_pins) ==
    [i \in DOMAIN gpio_pins |->
        <<"| Pin ", Fmt2d(gpio_pins[i][1]), ": ", LJust(gpio_pins[i][2], 46), " |">>]

Reference(gpio_pins) ==
    << <<"+", Rep("=", 58), "+">>,
       <<"|", StrCenter("Flipper Zero GPIO Komplette Pin-Referenz", 58), "|">>,
       <<"+", Rep("=", 58), "+">> >>
    \o ReferenceRows(gpio_pins)
    \o << <<"+", Rep("=", 58), "+">>,
          <<"|", LJust("Wichtige Hinweise:", 58), "|">>,
          <<"|", LJust("* GPIO Spannung: 3.3V (5V NICHT tolerant!)", 58), "|">>,
          <<"|", LJust("* Max. Strom pro Pin: 20mA", 58), "|">>,
          <<"|", LJust("* SWD Pins fur Debugging verwenden", 58), "|">>,
          <<"|", LJust("* VCC ist 3.3V Ausgang (max. 100mA)", 58), "|">>,
          <<"+", Rep("=", 58), "+">> >>

generate_full_pinout_reference(self) ==
    [self |-> self, ret |-> ReturnText(Reference(self.flipper_gpio_pins))]

-----------------------------------------------------------------------------
(* main(): sys.argv in, the print calls and the exit code out.  stdout is  *)
(* the sequence of print calls, each the text it wrote.                    *)

Full == <<"f", "u", "l", "l">>

UsageText == << <<"Usage: python pinout_generator.py <connection_type>">> >>
OrUseFullText == << <<"">>, <<"Or use 'full' for complete pin reference">> >>

\* print(label, ", ".join(generator.list_available_connections()))
KindsListText(label, generator) ==
    << <<label, " ">> \o JoinComma(list_available_connections(generator).ret.list) >>

\* print(f"Fehler: {e}"), the message given character by character
ErrorText(message) == << <<"F", "e", "h", "l", "e", "r", ":", " ">> \o message >>

\* variant: the handler ends the process with a failure code
ExceptValueErrorExit1(printed, message, generator) ==
    [stdout |-> printed \o <<ErrorText(message),
                             KindsListText("Verfugbare Verbindungstypen:", generator)>>,
     exit_code |-> 1]

\* the except ValueError branch
ExceptValueError(printed, message, generator) ==
    [stdout |-> printed \o <<ErrorText(message),
                             KindsListText("Verfugbare Verbindungstypen:", generator)>>,
     exit_code |-> 0]

\* an exception no handler catches ends the process with a traceback
Uncaught(printed) == [stdout |-> printed, exit_code |-> 1]

\* variant: the two print calls are swapped
TryRenderSwapped(connection_arg, generator) ==
    LET made == EnumByValue(connection_arg)
    IN  IF made.raised = "ValueError"
        THEN [stdout |-> <<ErrorText(made.message),
                           KindsListText("Verfugbare Verbindungstypen:", generator)>>,
              exit_code |-> 0]
        ELSE [stdout |-> <<generate_connection_diagram(generator, made.member).ret.text,
                           generate_ascii_pinout(generator, made.member,
                                                 DefaultWidth).ret.text>>,
              exit_code |-> 0]

\* the body of the try block
TryRender(connection_arg, generator) ==
    LET made == EnumByValue(connection_arg)
        pinout == generate_ascii_pinout(generator, made.member, DefaultWidth).ret
        diagram == generate_connection_diagram(generator, made.member).ret
    IN  IF made.raised = "ValueError"
        THEN ExceptValueError(<<>>, made.message, generator)
        ELSE IF pinout.raised = "ValueError"
        THEN ExceptValueError(<<>>, pinout.message, generator)
        ELSE IF pinout.raised # ""
        THEN Uncaught(<<>>)
        ELSE IF diagram.raised = "ValueError"
        THEN ExceptValueError(<<pinout.text>>, diagram.message, generator)
        ELSE IF diagram.raised # ""
        THEN Uncaught(<<pinout.text>>)
        ELSE [stdout |-> <<pinout.text, diagram.text>>, exit_code |-> 0]

main(argv) ==
    LET generator == NewGenerator
    IN  IF Len(argv) < 2
        THEN [stdout |-> <<UsageText,
                           KindsListText("Available connection types:", generator),
                           OrUseFullText>>,
              exit_code |-> 0]
        ELSE IF lower(argv[2]) = Full
        THEN [stdout |-> <<generate_full_pinout_reference(generator).ret.text>>,
              exit_code |-> 0]
        ELSE TryRender(lower(argv[2]), generator)

-----------------------------------------------------------------------------
(* Inputs.                                                                 *)

Kinds == {PyMember(n) : n \in MemberNames}

\* values that are no member of ConnectionType
Strangers == {PyOther("str", "uart"), PyOther("str", "xyz"), PyOther("NoneType", "None"),
              PyOther("int", "3"), PyOther("list", "[]"), PyOther("dict", "{}")}

PyValues == Kinds \cup Strangers

Widths == (DefaultWidth - WidthSpread) .. (DefaultWidth + WidthSpread)

PinNumbers == ((0 - PinMargin) .. (18 + PinMargin)) \cup {FarPin}

Alphabet == {"x", "X", "\\", "'", "\"", "\n"}

FreeArgs == UNION {[1..n -> Alphabet] : n \in 0..MaxArgLen}

\* first letter upper-cased
Capitalized(chars) == [i \in DOMAIN chars |-> IF i = 1 THEN upper(chars)[1] ELSE chars[i]]

Words == LET base == {ConnectionType[i].value : i \in DOMAIN ConnectionType} \cup {Full}
         IN  base \cup {upper(w) : w \in base} \cup {Capitalized(w) : w \in base}

Prog == <<"p", "i", "n", "o", "u", "t", "_", "g", "e", "n", "e", "r", "a", "t", "o", "r",
          ".", "p", "y">>

Argvs == {<<Prog>>}
         \cup {<<Prog, a>> : a \in Words \cup FreeArgs}
         \cup {<<Prog, a, <<"x">> >> : a \in Words}

-----------------------------------------------------------------------------
(* class FlipperDIYAgent (src/main.py).  A method gives the object after   *)
(* the call, the value returned and the records logged, each a             *)
(* <<level, message>> pair.                                                *)

PyBool(b) == PyOther("bool", IF b THEN "True" ELSE "False")
PyNone == PyOther("NoneType", "None")
PyStrValue(v) == PyOther("str", v)

\* FlipperDIYAgent.__init__
FlipperDIYAgent(connection_type, debug) ==
    [self |-> [connection_type |-> connection_type, debug |-> debug, connected |-> FALSE],
     ret |-> PyNone,
     logged |-> (IF debug THEN << <<"DEBUG", "Debug-Modus aktiviert">> >> ELSE <<>>)
                \o << <<"INFO", "FlipperDIYAgent initialisiert mit Verbindungstyp: "
                                \o connection_type>> >>]

\* FlipperDIYAgent.detect_connection_type: the placeholder detects nothing
detect_connection_type(self) ==
    LET detected == "none"
    IN  [self |-> self,
         ret |-> PyStrValue(detected),
         logged |-> << <<"INFO", "Erkenne verfugbare Verbindungsmethoden...">>,
                       <<"INFO", "Erkannter Verbindungstyp: " \o detected>> >>]

\* variant: the test for 'none' comes before the detection, not after it
connect_test_before_detection(self) ==
    IF self.connection_type = "none"
    THEN [self |-> self, ret |-> PyBool(FALSE),
          logged |-> << <<"ERROR", "Keine gultige Verbindungsmethode verfugbar">> >>]
    ELSE LET detection == detect_connection_type(self)
             typed == IF self.connection_type = "auto"
                      THEN [self EXCEPT !.connection_type = detection.ret.v]
                      ELSE self
         IN  [self |-> [typed EXCEPT !.connected = TRUE], ret |-> PyBool(TRUE),
              logged |-> << <<"INFO", "Verbindung erfolgreich hergestellt">> >>]

\* FlipperDIYAgent.connect
connect(self) ==
    LET detection == detect_connection_type(self)
        auto == self.connection_type = "auto"
        typed == IF auto
                 THEN [detection.self EXCEPT !.connection_type = detection.ret.v]
                 ELSE self
        detect_log == IF auto THEN detection.logged ELSE <<>>
        simulated == [typed EXCEPT !.connected = TRUE]
    IN  IF typed.connection_type = "none"
        THEN [self |-> typed, ret |-> PyBool(FALSE),
              logged |-> detect_log
                  \o << <<"ERROR", "Keine gultige Verbindungsmethode verfugbar">> >>]
        ELSE [self |-> simulated, ret |-> PyBool(simulated.connected),
              logged |-> detect_log
                  \o << <<"INFO", "Stelle Verbindung her uber: " \o typed.connection_type>>,
                        IF simulated.connected
                        THEN <<"INFO", "Verbindung erfolgreich hergestellt">>
                        ELSE <<"ERROR", "Verbindung fehlgeschlagen">> >>]

\* FlipperDIYAgent.disconnect
disconnect(self) ==
    IF self.connected
    THEN [self |-> [self EXCEPT !.connected = FALSE], ret |-> PyNone,
          logged |-> << <<"INFO", "Trenne Verbindung...">>,
                        <<"INFO", "Verbindung getrennt">> >>]
    ELSE [self |-> self, ret |-> PyNone, logged |-> <<>>]

Whitespace == {" ", "\t", "\n", "\r"}

RECURSIVE LStrip(_)
LStrip(chars) == IF chars # <<>> /\ Head(chars) \in Whitespace
                 THEN LStrip(Tail(chars))
                 ELSE chars

Reverse(chars) == [i \in DOMAIN chars |-> chars[Len(chars) + 1 - i]]

\* str.strip()
Strip(chars) == Reverse(LStrip(Reverse(LStrip(chars))))

CmdExit == <<"e", "x", "i", "t">>
CmdQuit == <<"q", "u", "i", "t">>
CmdQ == <<"q">>
CmdHelp == <<"h", "e", "l", "p">>
CmdStatus == <<"s", "t", "a", "t", "u", "s">>
CmdScan == <<"s", "c", "a", "n">>
CmdConnect == <<"c", "o", "n", "n", "e", "c", "t">>
CmdDisconnect == <<"d", "i", "s", "c", "o", "n", "n", "e", "c", "t">>
CmdGui == <<"g", "u", "i">>

\* run_interactive_mode, the lines printed before the loop
Banner ==
    <<"", "=== FlipperZero DIY Agent - Interaktiver Modus ===",
      "Verfugbare Befehle:",
      "  help    - Diese Hilfe anzeigen",
      "  status  - Verbindungsstatus anzeigen",
      "  scan    - Nach Geraten scannen",
      "  connect - Verbindung herstellen",
      "  disconnect - Verbindung trennen",
      "  gui     - GUI-Modus starten (geplant)",
      "  exit    - Programm beenden",
      "">>

\* run_interactive_mode, after the loop: self.disconnect() and the farewell
LeaveLoop(self, printed, logged) ==
    [self |-> disconnect(self).self,
     printed |-> printed \o <<"Auf Wiedersehen!">>,
     logged |-> logged \o disconnect(self).logged,
     break |-> TRUE]

StayInLoop(self, printed, logged) ==
    [self |-> self, printed |-> printed, logged |-> logged, break |-> FALSE]

\* run_interactive_mode, one pass of the loop for a line read by input();
\* a pass that breaks runs on to the end of the method
LoopPass(self, line) ==
    LET cmd == lower(Strip(line))
    IN  IF cmd \in {CmdExit, CmdQuit, CmdQ}
        THEN LeaveLoop(self, <<>>, <<>>)
        ELSE IF cmd = CmdHelp
        THEN StayInLoop(self,
                 <<"Verfugbare Befehle: help, status, scan, connect, disconnect, gui, exit">>,
                 <<>>)
        ELSE IF cmd = CmdStatus
        THEN StayInLoop(self,
                 <<"Status: "
                   \o (IF self.connected THEN "Verbunden" ELSE "Nicht verbunden")
                   \o " (Typ: " \o self.connection_type \o ")">>,
                 <<>>)
        ELSE IF cmd = CmdScan
        THEN StayInLoop(detect_connection_type(self).self,
                 <<"Erkannte Verbindung: " \o detect_connection_type(self).ret.v>>,
                 detect_connection_type(self).logged)
        ELSE IF cmd = CmdConnect
        THEN StayInLoop(connect(self).self,
                 <<IF connect(self).ret = PyBool(TRUE)
                   THEN "Verbindung erfolgreich hergestellt"
                   ELSE "Verbindung fehlgeschlagen">>,
                 connect(self).logged)
        ELSE IF cmd = CmdDisconnect
        THEN StayInLoop(disconnect(self).self, <<"Verbindung getrennt">>,
                        disconnect(self).logged)
        ELSE IF cmd = CmdGui
        THEN StayInLoop(self,
                 <<"GUI-Modus wird in einem zukunftigen Commit implementiert...">>, <<>>)
        ELSE IF cmd = <<>>
        THEN StayInLoop(self, <<>>, <<>>)
        ELSE StayInLoop(self,
                 <<"Unbekannter Befehl: " \o Str(cmd)
                   \o ". Verwenden Sie 'help' fur Hilfe.">>, <<>>)

\* run_interactive_mode, input() raising KeyboardInterrupt or EOFError
LoopInterrupted(self, exc) ==
    LeaveLoop(self, IF exc = "KeyboardInterrupt" THEN <<"", "Beende...">> ELSE <<>>, <<>>)

-----------------------------------------------------------------------------
(* The state machine: an object after construction, then any sequence of   *)
(* method calls and runs of main().                                        *)

NoArgs == [op |-> "", connection_type |-> PyOther("NoneType", "None"),
           width |-> 0, pin_number |-> 0]

\* the generator as constructed, before any call
GeneratorConstructed ==
    /\ flipper_gpio_pins = NewGenerator.flipper_gpio_pins
    /\ connection_configs = NewGenerator.connection_configs
    /\ call = [NoArgs EXCEPT !.op = "__init__"]
    /\ ret = NoRet
    /\ sys_argv = <<Prog>>
    /\ stdout = <<>>
    /\ exit_code = 0

\* an agent as FlipperDIYAgent(connection_type, debug) constructs it
AgentConstructed(connection_type, debug) ==
    /\ agent = FlipperDIYAgent(connection_type, debug).self
    /\ agent_pc = "constructed"
    /\ agent_call = [op |-> "__init__", input |-> <<>>,
                     ret |-> FlipperDIYAgent(connection_type, debug).ret,
                     printed |-> <<>>,
                     logged |-> FlipperDIYAgent(connection_type, debug).logged]
    /\ ctor_connection_type = connection_type

\* the programs that use the generator: the agent takes no part in them
Init ==
    /\ GeneratorConstructed
    /\ AgentConstructed("auto", FALSE)

\* a method call of a program that uses the object: the object and the result
\* it leaves.  A process that ran main() has ended.
Called(c, r) ==
    /\ call.op # "main"
    /\ call' = c
    /\ ret' = r.ret
    /\ flipper_gpio_pins' = r.self.flipper_gpio_pins
    /\ connection_configs' = r.self.connection_configs
    /\ UNCHANGED <<sys_argv, stdout, exit_code>>
    /\ UNCHANGED agent_vars

GenerateAsciiPinout ==
    \E v \in PyValues, w \in Widths :
        Called([NoArgs EXCEPT !.op = "generate_ascii_pinout",
                              !.connection_type = v, !.width = w],
               generate_ascii_pinout(Self(flipper_gpio_pins, connection_configs), v, w))

GenerateConnectionDiagram ==
    \E v \in PyValues :
        Called([NoArgs EXCEPT !.op = "generate_connection_diagram", !.connection_type = v],
               generate_connection_diagram(Self(flipper_gpio_pins, connection_configs), v))

GetPinInfo ==
    \E n \in PinNumbers :
        Called([NoArgs EXCEPT !.op = "get_pin_info", !.pin_number = n],
               get_pin_info(Self(flipper_gpio_pins, connection_configs), n))

ListAvailableConnections ==
    Called([NoArgs EXCEPT !.op = "list_available_connections"],
           list_available_connections(Self(flipper_gpio_pins, connection_configs)))

GenerateFullPinoutReference ==
    Called([NoArgs EXCEPT !.op = "generate_full_pinout_reference"],
           generate_full_pinout_reference(Self(flipper_gpio_pins, connection_configs)))

\* the script run from the command line (if __name__ == "__main__": main()):
\* a fresh process, and main() builds its own generator
Main ==
    \E argv \in Argvs :
        /\ call.op = "__init__"
        /\ sys_argv' = argv
        /\ stdout' = main(argv).stdout
        /\ exit_code' = main(argv).exit_code
        /\ call' = [NoArgs EXCEPT !.op = "main"]
        /\ ret' = NoRet
        /\ UNCHANGED <<flipper_gpio_pins, connection_configs>>
        /\ UNCHANGED agent_vars

Next ==
    \/ GenerateAsciiPinout
    \/ GenerateConnectionDiagram
    \/ GetPinInfo
    \/ ListAvailableConnections
    \/ GenerateFullPinoutReference
    \/ Main

Spec == Init /\ [][Next]_vars

-----------------------------------------------------------------------------
(* The agent's state machine: an agent after construction, then any        *)
(* sequence of calls of connect, disconnect and detect_connection_type and *)
(* runs of run_interactive_mode with any lines typed at its prompt.        *)

\* --connection choices of the argument parser, and 'none' given in code
ConnectionChoices == {"auto", "uart", "usb", "ftdi", "direct"}
CtorConnectionTypes == ConnectionChoices \cup {"none"}

\* lines typed at the prompt: each command, as is, in upper case and with
\* blanks around it, an empty line, a blank line and an unknown command
Commands == {CmdExit, CmdQuit, CmdQ, CmdHelp, CmdStatus, CmdScan, CmdConnect,
             CmdDisconnect, CmdGui}
TypedLines == Commands
              \cup {upper(c) : c \in Commands}
              \cup {<<" ">> \o c \o <<" ", "\t">> : c \in Commands}
              \cup {<<>>, <<" ">>, <<"x">>, CmdConnect \o <<"x">>}

AgentInit ==
    /\ GeneratorConstructed
    /\ \E connection_type \in CtorConnectionTypes, debug \in BOOLEAN :
           AgentConstructed(connection_type, debug)

\* a method called by a program that holds the agent, outside the loop
AgentCalled(op, r) ==
    /\ agent_pc # "prompt"
    /\ agent' = r.self
    /\ agent_call' = [op |-> op, input |-> <<>>, ret |-> r.ret,
                      printed |-> <<>>, logged |-> r.logged]
    /\ UNCHANGED <<agent_pc, ctor_connection_type>>
    /\ UNCHANGED pinout_vars

Connect == AgentCalled("connect", connect(agent))

Disconnect == AgentCalled("disconnect", disconnect(agent))

DetectConnectionType == AgentCalled("detect_connection_type", detect_connection_type(agent))

\* run_interactive_mode up to its first input()
RunInteractiveMode ==
    /\ agent_pc # "prompt"
    /\ agent_pc' = "prompt"
    /\ agent_call' = [op |-> "run_interactive_mode", input |-> <<>>, ret |-> PyNone,
                      printed |-> Banner, logged |-> <<>>]
    /\ UNCHANGED <<agent, ctor_connection_type>>
    /\ UNCHANGED pinout_vars

\* what one pass of the loop leaves
Passed(line, r) ==
    /\ agent_pc = "prompt"
    /\ agent' = r.self
    /\ agent_pc' = IF r.break THEN "returned" ELSE "prompt"
    /\ agent_call' = [op |-> "input", input |-> line, ret |-> PyNone,
                      printed |-> r.printed, logged |-> r.logged]
    /\ UNCHANGED ctor_connection_type
    /\ UNCHANGED pinout_vars

\* a line is typed at the prompt
InputLine == \E line \in TypedLines : Passed(line, LoopPass(agent, line))

\* Ctrl-C or end of input at the prompt
InputInterrupted ==
    \E exc \in {"KeyboardInterrupt", "EOFError"} :
        Passed(<<>>, LoopInterrupted(agent, exc))

AgentNext ==
    \/ Connect
    \/ Disconnect
    \/ DetectConnectionType
    \/ RunInteractiveMode
    \/ InputLine
    \/ InputInterrupted

AgentSpec == AgentInit /\ [][AgentNext]_vars

-----------------------------------------------------------------------------
(* Properties.                                                             *)

\* whether sub occurs in seq as a contiguous run
Contains(seq, sub) ==
    \E i \in 0 .. (Len(seq) - Len(sub)) : SubSeq(seq, i + 1, i + Len(sub)) = sub

KindValues == {ConnectionType[i].value : i \in DOMAIN ConnectionType}

AfterRender == call.op \in {"generate_ascii_pinout", "generate_connection_diagram"}

\* the profile of a member, as constructed
ProfileOf(kind) == DictGet(connection_configs, kind.v).v

\* C1: for every value that is not one of the four connection kinds, both
\* generate_ascii_pinout and generate_connection_diagram end in ValueError and
\* return no text.
C1_UnknownKindRaisesValueError ==
    (AfterRender /\ call.connection_type \notin Kinds)
        => (ret.raised = "ValueError" /\ ret.text = <<>>)

\* the pin-assignment rows of a boxed pinout: the lines between the separator
\* under the "Pin-Zuordnungen" heading (line 14) and the next separator
RowsOf(text, n) == SubSeq(text, 15, 14 + n)

AfterPinout(kind) ==
    /\ call.op = "generate_ascii_pinout"
    /\ call.connection_type = kind
    /\ ret.raised = ""

\* C2: for every kind the pin-assignment rows of generate_ascii_pinout(kind)
\* are the entries of the kind's "pins" mapping, one row per entry, in insertion
\* order; an integer reference gives pin number, role and catalog label, a named
\* reference gives name and role only; the UART rows are 6:TX, 7:RX, 1:VCC,
\* 16:GND with their catalog labels.
C2_RowsFollowProfileOrder ==
    \A kind \in Kinds :
        AfterPinout(kind) =>
            LET pins == ProfileOf(kind).pins
                sep == <<"+", Rep("=", call.width), "+">>
                rows == RowsOf(ret.text, Len(pins))
            IN  /\ ret.text[14] = sep
                /\ ret.text[15 + Len(pins)] = sep
                /\ Cardinality({i \in DOMAIN ret.text : Len(ret.text[i]) \in {5, 7}})
                       = Len(pins)
                /\ \A i \in DOMAIN pins :
                       IF pins[i][1].type = "int"
                       THEN /\ Len(rows[i]) = 7
                            /\ rows[i][2] = Fmt2d(pins[i][1].n)
                            /\ rows[i][4] = LJust(pins[i][2], 10)
                            /\ rows[i][6] = LJust(DictGet(flipper_gpio_pins,
                                                          pins[i][1].n).v, 25)
                       ELSE /\ Len(rows[i]) = 5
                            /\ rows[i][2] = pins[i][1].s
                            /\ rows[i][4] = LJust(pins[i][2], 35)
                /\ kind = PyMember("UART") =>
                       [i \in DOMAIN rows |-> <<rows[i][2], rows[i][4], rows[i][6]>>]
                         = << <<" 6", "TX        ", "PB2 (USART_TX)           ">>,
                              <<" 7", "RX        ", "PC3 (USART_RX)           ">>,
                              <<" 1", "VCC       ", "VCC (3.3V)               ">>,
                              <<"16", "GND       ", "GND                      ">> >>

\* a USB pinout was rendered: two integer rows, then the two named rows
C2_Witness ==
    /\ AfterPinout(PyMember("USB"))
    /\ call.width = DefaultWidth
    /\ ret.text[15][2] = "18"
    /\ ret.text[17] = <<"| ", "USB_D+", ": ", LJust("Data+", 35), " |">>

CatalogKeys == {flipper_gpio_pins[i][1] : i \in DOMAIN flipper_gpio_pins}

\* C3: every integer pin reference of the four profiles is a key of the pin
\* catalog (1..18), so generate_ascii_pinout never renders the "Unknown" label
\* for a built-in profile.
C3_ProfilePinsInCatalog ==
    /\ CatalogKeys = 1..18
    /\ \A k \in DOMAIN connection_configs :
           \A i \in DOMAIN connection_configs[k][2].pins :
               LET pin == connection_configs[k][2].pins[i][1]
               IN  pin.type = "int" => pin.n \in CatalogKeys
    /\ \A kind \in Kinds :
           AfterPinout(kind) =>
               \A i \in DOMAIN ret.text :
                   (Len(ret.text[i]) = 7 => ret.text[i][6] # LJust("Unknown", 25))

\* a DIRECT pinout was rendered with the catalog label of pin 12
C3_Witness ==
    /\ AfterPinout(PyMember("DIRECT"))
    /\ ret.text[17][2] = "12"
    /\ ret.text[17][6] = LJust("PA15 (GPIO)", 25)

\* main() ran with exactly one positional argument that, lower-cased, is
\* neither "full" nor the value of a connection kind
AfterMainInvalid ==
    /\ call.op = "main"
    /\ Len(sys_argv) = 2
    /\ lower(sys_argv[2]) \notin KindValues \cup {Full}

KindsLine(label) == <<label, " ", "uart", ", ", "ftdi", ", ", "direct", ", ", "usb">>

\* what main() prints and returns for an invalid argument, but for the value
\* the error message shows
InvalidArgOutcome ==
    /\ Len(stdout) = 2
    /\ Len(stdout[1]) = 1
    /\ SubSeq(stdout[1][1], 1, 8) = <<"F", "e", "h", "l", "e", "r", ":", " ">>
    /\ stdout[2] = <<KindsLine("Verfugbare Verbindungstypen:")>>
    /\ exit_code = 0

\* C4 as stated: main() with an invalid argument prints an error message that
\* contains the invalid value, then the list of the four valid kind names,
\* prints no pinout or wiring text and ends with exit code 0.
C4_MessageContainsArgument ==
    AfterMainInvalid => (InvalidArgOutcome /\ Contains(stdout[1][1], sys_argv[2]))

\* characters repr() writes as they are, whatever the quote
Plain(chars) == \A i \in DOMAIN chars : chars[i] \notin {"\\", "'", "\"", "\n", "\t", "\r"}

\* C4 as amended: the error message contains the repr of the LOWER-CASED
\* argument (the lower-cased argument itself, in single quotes, when it holds no
\* backslash, quote or control character); then the list of the four valid kind
\* names; no pinout or wiring text; exit code 0.
C4_MessageContainsReprOfLowered ==
    AfterMainInvalid =>
        /\ InvalidArgOutcome
        /\ Contains(stdout[1][1], repr(lower(sys_argv[2])))
        /\ Plain(sys_argv[2]) =>
               Contains(stdout[1][1], <<"'">> \o lower(sys_argv[2]) \o <<"'">>)

\* main() ran with an upper-case invalid argument and printed it lower-cased
C4_Witness ==
    /\ AfterMainInvalid
    /\ sys_argv[2] = <<"X", "X">>
    /\ Contains(stdout[1][1], <<"'", "x", "x", "'">>)
    /\ ~Contains(stdout[1][1], <<"X">>)

\* C5: main() with one argument equal, case-insensitively, to a kind name
\* prints the boxed pinout of that kind at width 60 and then the wiring diagram
\* of that kind, and exits 0; with "full" it prints only the full reference;
\* with no argument it prints the usage text and the list of valid kinds.
C5_MainPrintsPinoutThenDiagram ==
    call.op = "main" =>
        /\ exit_code = 0
        /\ Len(sys_argv) = 1 =>
               /\ stdout[1] = << <<"Usage: python pinout_generator.py <connection_type>">> >>
               /\ stdout[2] = <<KindsLine("Available connection types:")>>
        /\ (Len(sys_argv) = 2 /\ lower(sys_argv[2]) = Full) =>
               stdout = <<generate_full_pinout_reference(NewGenerator).ret.text>>
        /\ \A kind \in Kinds :
               (Len(sys_argv) = 2 /\ lower(sys_argv[2]) = ValueOf(kind.v)) =>
                   /\ stdout = <<generate_ascii_pinout(NewGenerator, kind,
                                                       DefaultWidth).ret.text,
                                 generate_connection_diagram(NewGenerator, kind).ret.text>>
                   /\ stdout[1][1] = <<"+", Rep("=", 60), "+">>
                   /\ stdout[1][3][2] = CenterFmt(ProfileOf(kind).description, 60)
                   /\ stdout[2][2] = <<Str(upper(ValueOf(kind.v))), " Verbindungsdiagramm:">>

\* main() ran with "FTDI" and printed the FTDI pinout, then the FTDI diagram
C5_Witness ==
    /\ call.op = "main"
    /\ sys_argv = <<Prog, <<"F", "T", "D", "I">> >>
    /\ Len(stdout) = 2
    /\ stdout[1][3][2] = CenterFmt("FTDI USB-Serial Adapter", 60)
    /\ stdout[2][2] = <<"FTDI", " Verbindungsdiagramm:">>
    /\ exit_code = 0

\* C6: generate_full_pinout_reference lists every pin index from 1 to 18
\* exactly once, in ascending order, each with its catalog label, followed by
\* the fixed block of four notes; its output is the same whatever was called
\* before, with whatever connection kind.
C6_FullReferenceListsAllPins ==
    call.op = "generate_full_pinout_reference" =>
        /\ ret.raised = ""
        /\ {i \in DOMAIN ret.text : Len(ret.text[i]) = 5} = 4..21
        /\ \A n \in 1..18 :
               /\ ret.text[3 + n][1] = "| Pin "
               /\ ret.text[3 + n][2] = Fmt2d(n)
               /\ ret.text[3 + n][4] = LJust(DictGet(InitPins, n).v, 46)
        /\ SubSeq(ret.text, 22, Len(ret.text)) =
               << <<"+", Rep("=", 58), "+">>,
                  <<"|", LJust("Wichtige Hinweise:", 58), "|">>,
                  <<"|", LJust("* GPIO Spannung: 3.3V (5V NICHT tolerant!)", 58), "|">>,
                  <<"|", LJust("* Max. Strom pro Pin: 20mA", 58), "|">>,
                  <<"|", LJust("* SWD Pins fur Debugging verwenden", 58), "|">>,
                  <<"|", LJust("* VCC ist 3.3V Ausgang (max. 100mA)", 58), "|">>,
                  <<"+", Rep("=", 58), "+">> >>
        /\ ret.text = generate_full_pinout_reference(NewGenerator).ret.text

\* the full reference was rendered: first row pin 1, last row pin 18
C6_Witness ==
    /\ call.op = "generate_full_pinout_reference"
    /\ ret.text[4][2] = " 1"
    /\ ret.text[21][2] = "18"
    /\ Len(ret.text) = 28

\* C7: get_pin_info never fails: it returns the catalog label for a pin number
\* in 1..18 ("VCC (3.3V)" for 1) and None for every number outside the catalog,
\* such as 0, 19 or 9999.
C7_GetPinInfoNeverFails ==
    call.op = "get_pin_info" =>
        /\ ret.raised = ""
        /\ call.pin_number \in 1..18 =>
               /\ ret.pin_info.some
               /\ ret.pin_info.v = InitPins[call.pin_number][2]
        /\ call.pin_number = 1 => ret.pin_info = Some("VCC (3.3V)")
        /\ call.pin_number \notin 1..18 => ret.pin_info = None

\* pin 9999 was looked up and None came back
C7_Witness ==
    /\ call.op = "get_pin_info"
    /\ call.pin_number = FarPin
    /\ ret.raised = ""
    /\ ~ret.pin_info.some

\* the result of the last call, had it been made on a newly constructed object
FreshResult ==
    IF call.op = "generate_ascii_pinout"
    THEN generate_ascii_pinout(NewGenerator, call.connection_type, call.width).ret
    ELSE IF call.op = "generate_connection_diagram"
    THEN generate_connection_diagram(NewGenerator, call.connection_type).ret
    ELSE IF call.op = "get_pin_info"
    THEN get_pin_info(NewGenerator, call.pin_number).ret
    ELSE IF call.op = "list_available_connections"
    THEN list_available_connections(NewGenerator).ret
    ELSE IF call.op = "generate_full_pinout_reference"
    THEN generate_full_pinout_reference(NewGenerator).ret
    ELSE NoRet

\* C8: after any sequence of calls of the five methods, calls that raise
\* included, the pin catalog and the four profiles are as constructed, and the
\* last call returned what it returns on a newly constructed object.
C8_CatalogAndProfilesUnchanged ==
    /\ flipper_gpio_pins = InitPins
    /\ connection_configs = InitConfigs
    /\ call.op # "main" => ret = FreshResult

\* a call ended in the unknown-kind error and left the object as constructed
C8_Witness ==
    /\ call.op = "generate_connection_diagram"
    /\ ret.raised = "ValueError"
    /\ flipper_gpio_pins = InitPins
    /\ connection_configs = InitConfigs

\* C9: list_available_connections returns exactly 4 entries, in the order
\* uart, ftdi, direct, usb, and these are the values of exactly the members
\* that have a connection profile.
C9_ListIsTheFourKindsInOrder ==
    call.op = "list_available_connections" =>
        /\ ret.raised = ""
        /\ Len(ret.list) = 4
        /\ ret.list = <<"uart", "ftdi", "direct", "usb">>
        /\ {ret.list[i] : i \in DOMAIN ret.list}
               = {Str(ValueOf(connection_configs[k][1])) : k \in DOMAIN connection_configs}

\* the list was returned
C9_Witness ==
    /\ call.op = "list_available_connections"
    /\ ret.list[1] = "uart"
    /\ ret.list[4] = "usb"

\* C10: every line of generate_ascii_pinout(kind, 60) is as long as the top
\* border, 62 characters, and every line of generate_full_pinout_reference is
\* as long as its top border, 60 characters.
C10_AlignedFrame ==
    /\ \A kind \in Kinds :
           (AfterPinout(kind) /\ call.width = DefaultWidth) =>
               /\ LineLen(ret.text[1]) = DefaultWidth + 2
               /\ \A i \in DOMAIN ret.text : LineLen(ret.text[i]) = LineLen(ret.text[1])
    /\ call.op = "generate_full_pinout_reference" =>
           /\ LineLen(ret.text[1]) = 60
           /\ \A i \in DOMAIN ret.text : LineLen(ret.text[i]) = LineLen(ret.text[1])

\* the call made last was connect(), directly or by the "connect" command
AfterConnect ==
    \/ agent_call.op = "connect"
    \/ agent_call.op = "input" /\ lower(Strip(agent_call.input)) = CmdConnect

\* what that connect() returned: its return value, or the line the command
\* printed for it
ConnectFailed ==
    IF agent_call.op = "connect"
    THEN agent_call.ret = PyBool(FALSE)
    ELSE agent_call.printed = <<"Verbindung fehlgeschlagen">>

\* C11: for an agent created with connection_type 'auto', after any sequence
\* of connect, disconnect and scan operations connected is never True; every
\* connect() leaves connection_type 'none' and returns False; and for any
\* agent, connected = True implies connection_type is neither 'auto' nor
\* 'none'.
C11_AutoAgentNeverConnects ==
    /\ ctor_connection_type = "auto" =>
           /\ ~agent.connected
           /\ agent.connection_type \in {"auto", "none"}
           /\ AfterConnect => (agent.connection_type = "none" /\ ConnectFailed)
    /\ agent.connected => agent.connection_type \notin {"auto", "none"}

\* an 'auto' agent was told to connect at the prompt, after the detection had
\* already replaced its connection_type, and failed again
C11_Witness ==
    /\ ctor_connection_type = "auto"
    /\ agent_pc = "prompt"
    /\ agent_call.op = "input"
    /\ agent_call.input = upper(CmdConnect)
    /\ agent_call.logged = << <<"ERROR", "Keine gultige Verbindungsmethode verfugbar">> >>
    /\ agent_call.printed = <<"Verbindung fehlgeschlagen">>
    /\ agent.connection_type = "none"
    /\ ~agent.connected

====
